---- MODULE Spec2Model ----
(***************************************************************************)
(* TTD-DR (Test-Time Diffusion Deep Researcher).                           *)
(*                                                                         *)
(* A model of the research control loop in its two encodings: the direct   *)
(* variant (TTDDRAgent.run) and the graph variant (create_graph), together *)
(* with ResearchPlanner.generate_plan.                                     *)
(*                                                                         *)
(* A text is a sequence of tokens.  Texts whose characters the code        *)
(* inspects (questions, message contents, planner responses) are spelled   *)
(* one character per token; the others are opaque one-token texts.         *)
(***************************************************************************)
EXTENDS Integers, Sequences, FiniteSets, TLC

VARIABLES
    cfg,        \* constructor arguments of the run and which encoding runs
    pc,         \* position of the run: a line of run() or a graph node
    state,      \* AgentState of the direct variant
    step,       \* loop variable of _iterative_search_and_refine
    question,   \* local `question` of the current iteration
    answer,     \* local `answer` of the current iteration
    gstate,     \* TTDDRGraphState of the graph variant
    trace,      \* operations performed so far, in order
    error,      \* exception that ended the run, "none" while there is none
    planCall,   \* one call of generate_plan: its arguments, response, result
    judge,      \* one call of LLMEvaluator.evaluate_answer: response, score, feedback
    evo,        \* one call of SelfEvolution.evolve_answer: its locals and its calls
    pair,       \* one script of responses and the run of each variant on it
    win         \* one search history and the prior-question list built from it

vars == <<cfg, pc, state, step, question, answer, gstate, trace, error,
          planCall, judge, evo, pair, win>>

\* the calls studied on their own, outside a run of the agent
calls == <<planCall, judge, evo, pair, win>>

runVars == <<cfg, pc, state, step, question, answer, gstate, trace, error>>

---------------------------------------------------------------------------
(* Bounds *)

\* largest step budget max_search_steps explored
MaxSteps == 4

\* longest planner response, in tokens
MaxTextLen == 4

\* longest search history whose prior-question list is built
MaxHistory == 6

\* most variants asked of evolve_answer
MaxVariants == 2

\* most feedback rounds asked of evolve_answer
MaxIterations == 2

---------------------------------------------------------------------------
(* Text helpers: str.strip, str.upper, str.lower, `in`, find, rfind, slices *)

Min(S) == CHOOSE x \in S : \A y \in S : x <= y

Max(S) == CHOOSE x \in S : \A y \in S : x >= y

SeqsUpTo(S, n) == UNION {[1..k -> S] : k \in 0..n}

\* the whitespace characters that occur in the texts
Whitespace == {" ", "\n"}

strip(s) ==
    LET keep == {i \in 1..Len(s) : s[i] \notin Whitespace}
    IN  IF keep = {} THEN <<>> ELSE SubSeq(s, Min(keep), Max(keep))

UpperChar(c) ==
    CASE c = "d" -> "D" [] c = "o" -> "O" [] c = "n" -> "N" [] c = "e" -> "E"
      [] c = "c" -> "C" [] c = "m" -> "M" [] c = "p" -> "P" [] c = "l" -> "L"
      [] c = "t" -> "T" [] c = "q" -> "Q" [] c = "x" -> "X"
      [] OTHER -> c

LowerChar(c) ==
    CASE c = "D" -> "d" [] c = "O" -> "o" [] c = "N" -> "n" [] c = "E" -> "e"
      [] c = "C" -> "c" [] c = "M" -> "m" [] c = "P" -> "p" [] c = "L" -> "l"
      [] c = "T" -> "t" [] c = "Q" -> "q" [] c = "X" -> "x"
      [] OTHER -> c

upper(s) == [i \in 1..Len(s) |-> UpperChar(s[i])]

lower(s) == [i \in 1..Len(s) |-> LowerChar(s[i])]

\* Python's `sub in s`
Contains(s, sub) ==
    \E i \in 1..(Len(s) - Len(sub) + 1) : SubSeq(s, i, i + Len(sub) - 1) = sub

\* s[:n]
Take(s, n) == SubSeq(s, 1, IF Len(s) < n THEN Len(s) ELSE n)

\* s[-n:] for n > 0
LastN(s, n) == IF Len(s) <= n THEN s ELSE SubSeq(s, Len(s) - n + 1, Len(s))

\* str.find: 0-based index of the first occurrence of the character, or -1
find(s, c) ==
    LET at == {i \in 1..Len(s) : s[i] = c}
    IN  IF at = {} THEN -1 ELSE Min(at) - 1

\* str.rfind: 0-based index of the last occurrence of the character, or -1
rfind(s, c) ==
    LET at == {i \in 1..Len(s) : s[i] = c}
    IN  IF at = {} THEN -1 ELSE Max(at) - 1

\* s[start:end] for 0 <= start, 0 <= end
Slice(s, start, end) == SubSeq(s, start + 1, IF end > Len(s) THEN Len(s) ELSE end)

IsPrefix(s, t) == Len(s) <= Len(t) /\ SubSeq(t, 1, Len(s)) = s

-------------------------------------------------------------------------------------------------------------------------------------------------
(* ResearchPlanner.generate_plan                                           *)
(*                                                                         *)
(* A planner response is a text over these tokens:                         *)
(*   "{" "}"  the brace characters; the keys, commas and arrays of an      *)
(*            object are left out, so <<"{", "{", "}", "}">> is an object  *)
(*            holding one nested object                                    *)
(*   "n"      a well-formed value that is not an object (null, a number)   *)
(*   "x"      prose                                                        *)
(***************************************************************************)

PlanTokens == {"{", "}", "n", "x"}

PlanTexts == SeqsUpTo(PlanTokens, MaxTextLen)

\* AgentState.plan as constructed: the empty dict
EmptyPlan == [isdict |-> TRUE, sections |-> <<>>]

NotAValue == [isdict |-> FALSE, sections |-> <<>>]

\* nesting depth after the first i tokens
Depth(text, i) ==
    Cardinality({k \in 1..i : text[k] = "{"}) - Cardinality({k \in 1..i : text[k] = "}"})

\* one object: braces only, balanced, closed by the last token and not before
IsObject(text) ==
    /\ Len(text) >= 2
    /\ \A i \in 1..Len(text) : text[i] \in {"{", "}"}
    /\ \A i \in 1..(Len(text) - 1) : Depth(text, i) >= 1
    /\ Depth(text, Len(text)) = 0

\* the object decoded: one section for each object nested directly in it
Decoded(text) ==
    LET n == Cardinality({i \in 2..Len(text) : text[i] = "{" /\ Depth(text, i - 1) = 1})
    IN  [isdict |-> TRUE,
         sections |-> [k \in 1..n |-> [title |-> <<"Section">>, questions |-> <<>>]]]

\* json.loads: the decoded value, or JSONDecodeError
json_loads(text) ==
    IF IsObject(text) THEN [ok |-> TRUE, value |-> Decoded(text)]
    ELSE IF text = <<"n">> THEN [ok |-> TRUE, value |-> NotAValue]
    ELSE [ok |-> FALSE, value |-> NotAValue]

full_query(query, brief) ==
    <<"Address: ">> \o query \o (IF brief # <<>> THEN <<"\nBrief: ">> \o brief ELSE <<>>)

\* the single default section of line 31
DefaultPlan(query) ==
    [isdict |-> TRUE,
     sections |-> <<[title |-> <<"General Research">>, questions |-> <<query>>]>>]

Returned(v) == [exc |-> "none", value |-> v]

Raised(e) == [exc |-> e, value |-> NotAValue]

\* the guard of line 29 without its test of the order of the two braces
ExtractableAnyEnd(start, end) == start # -1

\* the guard of line 29
Extractable(start, end) == start # -1 /\ end > start

\* lines 24-31, given response.content
generate_plan(query, brief, content) ==
    LET whole == json_loads(content)
        start == find(content, "{")
        end   == rfind(content, "}") + 1
        inner == json_loads(Slice(content, start, end))
    IN  IF whole.ok THEN Returned(whole.value)
        ELSE IF Extractable(start, end)
            THEN (IF inner.ok THEN Returned(inner.value) ELSE Raised("JSONDecodeError"))
        ELSE Returned(DefaultPlan(query))

---------------------------------------------------------------------------
(* What the external collaborators may answer *)

DONE == <<"D", "O", "N", "E">>

COMPLETE == <<"c", "o", "m", "p", "l", "e", "t", "e">>

\* response.content of the question-generation call, before strip()
QuestionResponses ==
    { DONE,
      <<" ", "D", "O", "N", "E", " ">>,
      <<>>,
      <<"d", "o", "n", "e">>,
      <<"x", "D", "O", "N", "E">>,
      <<"q">>,
      <<"c", "o", "m", "p", "l", "e", "t", "e", "?">> }

\* the responses the direct loop tells apart (lines 90 and 125): the
\* sentinel, bare and padded, the empty text, and text that is neither
DirectQuestionResponses ==
    { DONE,
      <<" ", "D", "O", "N", "E", " ">>,
      <<>>,
      <<"d", "o", "n", "e">>,
      <<"x", "D", "O", "N", "E">> }

\* response.content of the answer-synthesis call
Answers == {<<"a1">>}

\* what evolve_answer returns: its merge call's response.content
EvolvedAnswers == {<<"a1">>, <<"a2">>}

\* response.content of the initial-draft call
Drafts == {<<>>, <<"d0">>}

\* response.content of a denoise call
Refinements == {<<"d1">>}

\* response.content of the final-report call
Reports == {<<"r1">>}

\* the address and brief a run is started with
Address == <<"12 Main St">>

Brief == <<"80 units">>

\* arguments of generate_plan
Queries == {Address, <<"456 Oak Ave">>}

Briefs == {<<>>, Brief}

---------------------------------------------------------------------------
(* AgentState (memory/state.py) *)

\* AgentState(query=address, brief=brief)
AgentState(query, brief) ==
    [query |-> query, brief |-> brief, plan |-> EmptyPlan, search_history |-> <<>>,
     draft_report |-> <<>>, revision_count |-> 0, final_report |-> <<>>]

SearchResult(q, a) == [question |-> q, answer |-> a]

\* add_search_result inserting at the front
add_search_result_front(s, q, a) ==
    [s EXCEPT !.search_history = <<SearchResult(q, a)>> \o @]

add_search_result(s, q, a) ==
    [s EXCEPT !.search_history = Append(@, SearchResult(q, a))]

\* update_draft without its increment
update_draft_no_count(s, new_draft) == [s EXCEPT !.draft_report = new_draft]

\* update_draft storing the text in the wrong field
update_draft_wrong_field(s, new_draft) ==
    [s EXCEPT !.final_report = new_draft, !.revision_count = @ + 1]

update_draft(s, new_draft) ==
    [s EXCEPT !.draft_report = new_draft, !.revision_count = @ + 1]

---------------------------------------------------------------------------
(* The record of operations *)

(* An entry names the operation, the text it produced where a later         *)
(* decision reads it, the argument it was given where the code computes     *)
(* one, and whether it returned (ok) or raised.                             *)

Op(name) == [op |-> name, text |-> <<>>, arg |-> <<>>, ok |-> TRUE]

OpText(name, text) == [op |-> name, text |-> text, arg |-> <<>>, ok |-> TRUE]

OpArg(name, arg, text) == [op |-> name, text |-> text, arg |-> arg, ok |-> TRUE]

Failed(name) == [op |-> name, text |-> <<>>, arg |-> <<>>, ok |-> FALSE]

\* how many times the operation was started
Count(name) == Cardinality({i \in 1..Len(trace) : trace[i].op = name})

\* how many times the operation returned
Completed(name) == Cardinality({i \in 1..Len(trace) : trace[i].op = name /\ trace[i].ok})

\* the external call `name` raises and is issued a second time before the
\* run gives up
AbortRetried(before, name) ==
    /\ pc' = "aborted"
    /\ error' = "CallError"
    /\ trace' = trace \o before \o <<Failed(name), Failed(name)>>

\* after the operations `before`, the external call `name` raises: nothing
\* catches it and the run ends
Abort(before, name) ==
    /\ pc' = "aborted"
    /\ error' = "CallError"
    /\ trace' = trace \o before \o <<Failed(name)>>

---------------------------------------------------------------------------
(* Direct variant: TTDDRAgent.run and _iterative_search_and_refine *)

Direct == cfg.variant = "direct"

\* the loop bound off by one
InRangeInclusive(i, n) == i <= n

\* line 86: for step in range(self.max_search_steps)
InRange(i, n) == i < n

\* line 90 comparing without regard to case
LoopBreakAnyCase(q) == q = <<>> \/ upper(q) = DONE

\* line 90 without its test for the sentinel
LoopBreakEmptyOnly(q) == q = <<>>

\* line 90: if not question or question == "DONE": break
LoopBreak(q) == q = <<>> \/ q = DONE

\* line 97: step % 3
EvolvePeriod == 3

\* line 97 with the period of the graph variant (line 334)
EvolveDueEven(i) == cfg.use_self_evolution /\ i % 2 = 0

\* line 97
EvolveDue(i) == cfg.use_self_evolution /\ i % EvolvePeriod = 0

\* line 58 drafting whatever use_diffusion says
AfterPlanAlwaysDraft == "draft"

\* line 58: if self.use_diffusion
AfterPlan == IF cfg.use_diffusion THEN "draft" ELSE "loop"

\* line 59 going through update_draft
set_initial_draft_counted(s, d) == update_draft(s, d)

\* line 59: state.draft_report = self._generate_initial_draft(state)
set_initial_draft(s, d) == [s EXCEPT !.draft_report = d]

\* line 63: state.final_report = self._generate_final_report(state)
set_final_report(s, r) == [s EXCEPT !.final_report = r]

\* lines 55-56: generate_plan, then plan.get(...) in the print
run_plan ==
    /\ Direct /\ pc = "start"
    /\ UNCHANGED <<cfg, step, question, answer, gstate, calls>>
    /\ \/ Abort(<<>>, "plan") /\ UNCHANGED state
       \/ \E content \in PlanTexts :
            LET r == generate_plan(state.query, state.brief, content)
            IN  /\ trace' = Append(trace, IF r.exc # "none" THEN Failed("plan") ELSE Op("plan"))
                /\ IF r.exc # "none"
                     THEN pc' = "aborted" /\ error' = r.exc /\ UNCHANGED state
                   ELSE IF ~r.value.isdict
                     THEN /\ pc' = "aborted" /\ error' = "AttributeError"
                          /\ state' = [state EXCEPT !.plan = r.value]
                   ELSE /\ pc' = AfterPlan
                        /\ state' = [state EXCEPT !.plan = r.value]
                        /\ UNCHANGED error

\* lines 58-60
generate_initial_draft ==
    /\ Direct /\ pc = "draft"
    /\ UNCHANGED <<cfg, step, question, answer, gstate, calls>>
    /\ \/ Abort(<<>>, "draft") /\ UNCHANGED state
       \/ \E d \in Drafts :
            /\ state' = set_initial_draft(state, d)
            /\ trace' = Append(trace, Op("draft"))
            /\ pc' = "loop"
            /\ UNCHANGED error

\* lines 86-92
generate_search_question ==
    /\ Direct /\ pc = "loop" /\ InRange(step, cfg.max_search_steps)
    /\ UNCHANGED <<cfg, step, state, answer, gstate, calls>>
    /\ \/ Abort(<<>>, "question") /\ UNCHANGED question
       \/ \E content \in DirectQuestionResponses :
            LET q == strip(content)
            IN  /\ question' = q
                /\ trace' = Append(trace, OpText("question", q))
                /\ pc' = IF LoopBreak(q) THEN "final" ELSE "search_and_answer"
                /\ UNCHANGED error

\* line 86, range exhausted
loop_exhausted ==
    /\ Direct /\ pc = "loop" /\ ~InRange(step, cfg.max_search_steps)
    /\ pc' = "final"
    /\ UNCHANGED <<cfg, step, state, question, answer, gstate, trace, error, calls>>

\* what the knowledge base holds on a question, joined as on line 135
KbDocs == <<"[doc]">>

\* lines 146 and 329: kb_results[:1000] and kb_results[:500]
KbLimit == 1000

GraphKbLimit == 500

NA == <<"N/A">>

\* lines 130-137: kb_results starts empty; retrieve is called when there is a
\* retriever, and finds documents, finds none (the join of line 135 is then
\* the empty text) or raises, and whatever it raises is swallowed and leaves
\* kb_results empty
RetrieveCalls ==
    IF cfg.retriever
      THEN {[ops |-> <<OpText("kb", KbDocs)>>, kb_results |-> KbDocs],
            [ops |-> <<Op("kb")>>, kb_results |-> <<>>],
            [ops |-> <<Failed("kb")>>, kb_results |-> <<>>]}
      ELSE {[ops |-> <<>>, kb_results |-> <<>>]}

\* line 146 reading the truncated text where there is none
KbContextBlank(kb_results, limit) == Take(kb_results, limit)

\* lines 146 and 329: the "kb" input of the synthesis prompt
KbContext(kb_results, limit) ==
    IF kb_results # <<>> THEN Take(kb_results, limit) ELSE NA

\* line 95
search_and_answer ==
    /\ Direct /\ pc = "search_and_answer"
    /\ UNCHANGED <<cfg, step, state, question, gstate, calls>>
    /\ \/ Abort(<<>>, "web") /\ UNCHANGED answer
       \/ \E kb \in RetrieveCalls :
            \/ Abort(<<Op("web")>> \o kb.ops, "synth") /\ UNCHANGED answer
            \/ \E a \in Answers :
                 /\ answer' = a
                 /\ trace' = trace \o <<Op("web")>> \o kb.ops \o
                             <<OpArg("synth", KbContext(kb.kb_results, KbLimit), a)>>
                 /\ pc' = IF EvolveDue(step) THEN "evolve" ELSE "append"
                 /\ UNCHANGED error

\* lines 97-99
evolve_answer ==
    /\ Direct /\ pc = "evolve"
    /\ UNCHANGED <<cfg, step, state, question, gstate, calls>>
    /\ \/ Abort(<<>>, "evolve") /\ UNCHANGED answer
       \/ \E a \in EvolvedAnswers :
            /\ answer' = a
            /\ trace' = Append(trace, OpText("evolve", a))
            /\ pc' = "append"
            /\ UNCHANGED error

\* line 104 denoising whatever use_diffusion says
AfterAppendAlwaysDenoise == "denoise_draft"

\* line 104: if self.use_diffusion
AfterAppend == IF cfg.use_diffusion THEN "denoise_draft" ELSE "loop"

\* lines 101-102, and the end of the iteration when use_diffusion is off
append_result ==
    /\ Direct /\ pc = "append"
    /\ state' = add_search_result(state, question, answer)
    /\ trace' = Append(trace, OpText("append", answer))
    /\ pc' = AfterAppend
    /\ IF cfg.use_diffusion THEN UNCHANGED step ELSE step' = step + 1
    /\ UNCHANGED <<cfg, question, answer, gstate, error, calls>>

\* line 153: state.search_history[-3:]
DenoiseWindow == 3

\* line 153 taking the results before the one just appended
LatestBeforeAppend(history) ==
    LastN(Take(history, Len(history) - 1), DenoiseWindow)

\* line 153: the findings _denoise_draft puts before the model
Latest(history) == LastN(history, DenoiseWindow)

\* lines 104-106
denoise_draft ==
    /\ Direct /\ pc = "denoise_draft"
    /\ UNCHANGED <<cfg, question, answer, gstate, calls>>
    /\ \/ Abort(<<>>, "denoise") /\ UNCHANGED <<state, step>>
       \/ \E d \in Refinements :
            /\ state' = update_draft(state, d)
            /\ trace' = Append(trace, OpArg("denoise", Latest(state.search_history), <<>>))
            /\ pc' = "loop"
            /\ step' = step + 1
            /\ UNCHANGED error

\* line 177: the draft _generate_final_report puts before the model
FinalDraft(s) == IF cfg.use_diffusion THEN s.draft_report ELSE <<>>

\* lines 63-66
generate_final_report ==
    /\ Direct /\ pc = "final"
    /\ UNCHANGED <<cfg, step, question, answer, gstate, calls>>
    /\ \/ Abort(<<>>, "final") /\ UNCHANGED state
       \/ \E r \in Reports :
            /\ state' = set_final_report(state, r)
            /\ trace' = Append(trace, OpArg("final", FinalDraft(state), <<>>))
            /\ pc' = "done"
            /\ UNCHANGED error

DirectNext ==
    \/ run_plan
    \/ generate_initial_draft
    \/ generate_search_question
    \/ loop_exhausted
    \/ search_and_answer
    \/ evolve_answer
    \/ append_result
    \/ denoise_draft
    \/ generate_final_report

---------------------------------------------------------------------------
(* Graph variant: the nodes and routers of create_graph *)

Graph == cfg.variant = "graph"

\* line 307: step >= 2, and lines 398, 405: step_count >= 2
GraphMaxSteps == 2

\* line 333: question[:80]
QuestionPreview == 80

Last(s) == s[Len(s)]

\* the graph state before parse_input_node has run: only `messages` is given
GraphInput(messages) ==
    [messages |-> messages, address |-> <<>>, brief |-> <<>>, plan |-> EmptyPlan,
     search_history |-> <<>>, draft_report |-> <<>>, final_report |-> <<>>,
     step_count |-> 0]

\* line 308
ResearchComplete == <<"Research ">> \o COMPLETE

\* line 333
StepMessage(i, q) == <<"Step ", ToString(i + 1), ": ">> \o Take(q, QuestionPreview) \o <<"...">>

\* line 307: "DONE" in question.upper() or step >= 2
SearchStops(q, i) == Contains(upper(q), DONE) \/ i >= GraphMaxSteps

\* line 334
GraphEvolveDue(i) == i % 2 = 0 /\ i > 0

\* lines 396-400
should_continue_search(s) ==
    IF \/ s.step_count >= GraphMaxSteps
       \/ (s.messages # <<>> /\ Contains(lower(Last(s.messages)), COMPLETE))
      THEN "final_report"
      ELSE "denoise"

\* lines 403-405
after_denoise_routing(s) ==
    IF s.step_count >= GraphMaxSteps THEN "final_report" ELSE "search"

graphLocals == <<cfg, state, step, question, answer, calls>>

\* lines 239-254
parse_input_node ==
    /\ Graph /\ pc = "parse_input"
    /\ gstate' =
         IF gstate.messages = <<>>
           THEN [gstate EXCEPT !.address = <<>>, !.brief = <<>>,
                               !.search_history = <<>>, !.step_count = 0]
           ELSE [gstate EXCEPT !.address = Last(gstate.messages), !.brief = <<>>,
                               !.search_history = <<>>, !.step_count = 0,
                               !.messages = Append(@, <<"Starting: ">> \o Last(gstate.messages))]
    /\ pc' = "stage1_plan"
    /\ UNCHANGED <<trace, error>>
    /\ UNCHANGED graphLocals

\* lines 257-264
stage1_plan_node ==
    /\ Graph /\ pc = "stage1_plan"
    /\ UNCHANGED graphLocals
    /\ \/ Abort(<<>>, "plan") /\ UNCHANGED gstate
       \/ \E content \in PlanTexts :
            LET r == generate_plan(gstate.address, gstate.brief, content)
            IN  /\ trace' = Append(trace, IF r.exc # "none" THEN Failed("plan") ELSE Op("plan"))
                /\ IF r.exc # "none"
                     THEN pc' = "aborted" /\ error' = r.exc /\ UNCHANGED gstate
                   ELSE IF ~r.value.isdict
                     THEN pc' = "aborted" /\ error' = "AttributeError" /\ UNCHANGED gstate
                   ELSE /\ gstate' = [gstate EXCEPT
                                        !.plan = r.value,
                                        !.messages = Append(@, <<"Plan: ", ToString(Len(r.value.sections)), " sections">>)]
                        /\ pc' = "stage2_draft"
                        /\ UNCHANGED error

\* lines 267-287
stage2_draft_node ==
    /\ Graph /\ pc = "stage2_draft"
    /\ UNCHANGED graphLocals
    /\ \/ Abort(<<>>, "draft") /\ UNCHANGED gstate
       \/ \E d \in Drafts :
            /\ gstate' = [gstate EXCEPT !.draft_report = d,
                                        !.messages = Append(@, <<"Initial draft">>)]
            /\ trace' = Append(trace, Op("draft"))
            /\ pc' = "search"
            /\ UNCHANGED error

\* what search_node returns when it goes on to search (lines 338-342)
SearchUpdate(s, q, a, msgs) ==
    [s EXCEPT !.search_history = s.search_history \o << <<q, a>> >>,
              !.step_count = s.step_count + 1,
              !.messages = @ \o msgs]

\* lines 290-342, followed by the router of line 431
search_node ==
    /\ Graph /\ pc = "search"
    /\ UNCHANGED graphLocals
    /\ \/ Abort(<<>>, "question") /\ UNCHANGED gstate
       \/ \E content \in QuestionResponses :
            LET q == strip(content)
                i == gstate.step_count
                asked == <<OpText("question", q)>>
            IN  IF SearchStops(q, i)
                  THEN LET new == [gstate EXCEPT !.messages = Append(@, ResearchComplete)]
                       IN  /\ gstate' = new
                           /\ trace' = trace \o asked
                           /\ pc' = should_continue_search(new)
                           /\ UNCHANGED error
                  ELSE \/ Abort(asked, "web") /\ UNCHANGED gstate
                       \/ \E kb \in RetrieveCalls, a \in Answers :
                            LET found == asked \o <<Op("web")>> \o kb.ops
                                synth == OpArg("synth", KbContext(kb.kb_results, GraphKbLimit), a)
                            IN  \/ Abort(found, "synth") /\ UNCHANGED gstate
                                \/ /\ GraphEvolveDue(i)
                                   /\ Abort(found \o <<synth>>, "evolve")
                                   /\ UNCHANGED gstate
                                \/ \E e \in (IF GraphEvolveDue(i) THEN EvolvedAnswers ELSE {a}) :
                                     LET msgs == <<StepMessage(i, q)>> \o
                                                 (IF GraphEvolveDue(i)
                                                    THEN <<<<"Self-evolution">>>> ELSE <<>>)
                                         new == SearchUpdate(gstate, q, e, msgs)
                                     IN  /\ gstate' = new
                                         /\ trace' = trace \o found \o <<synth>> \o
                                                     (IF GraphEvolveDue(i)
                                                        THEN <<OpText("evolve", e)>> ELSE <<>>) \o
                                                     <<OpText("append", e)>>
                                         /\ pc' = should_continue_search(new)
                                         /\ UNCHANGED error

\* line 352: state["search_history"][-2:]
GraphDenoiseWindow == 2

\* lines 345-365, followed by the router of line 432
denoise_node ==
    /\ Graph /\ pc = "denoise"
    /\ UNCHANGED graphLocals
    /\ IF gstate.search_history = <<>>
         THEN LET new == [gstate EXCEPT !.messages = Append(@, <<"No research">>)]
              IN  /\ gstate' = new
                  /\ pc' = after_denoise_routing(new)
                  /\ UNCHANGED <<trace, error>>
         ELSE \/ Abort(<<>>, "denoise") /\ UNCHANGED gstate
              \/ \E d \in Refinements :
                   LET new == [gstate EXCEPT
                                 !.draft_report = d,
                                 !.messages = Append(@, <<"Denoised (revision ", ToString(gstate.step_count), ")">>)]
                   IN  /\ gstate' = new
                       /\ trace' = Append(trace, OpArg("denoise", LastN(gstate.search_history, GraphDenoiseWindow), <<>>))
                       /\ pc' = after_denoise_routing(new)
                       /\ UNCHANGED error

\* lines 368-389, then the edge to END of line 434
final_report_node ==
    /\ Graph /\ pc = "final_report"
    /\ UNCHANGED graphLocals
    /\ \/ Abort(<<>>, "final") /\ UNCHANGED gstate
       \/ \E r \in Reports :
            /\ gstate' = [gstate EXCEPT !.final_report = r,
                                        !.messages = Append(@, <<"Final report">>)]
            /\ trace' = Append(trace, Op("final"))
            /\ pc' = "END"
            /\ UNCHANGED error

GraphNext ==
    \/ parse_input_node
    \/ stage1_plan_node
    \/ stage2_draft_node
    \/ search_node
    \/ denoise_node
    \/ final_report_node

---------------------------------------------------------------------------
(* Runs of the agent *)

\* a call that is not under study
Idle == [phase |-> "idle"]

NoPlanCall == [phase |-> "idle", query |-> <<>>, brief |-> <<>>, content |-> <<>>,
               result |-> Returned(EmptyPlan)]

\* TTDDRAgent.__init__ (lines 26-45) and the first line of run (line 49)
DirectConfigs ==
    [variant : {"direct"}, max_search_steps : 0..MaxSteps,
     use_self_evolution : BOOLEAN, use_diffusion : BOOLEAN, retriever : BOOLEAN]

\* the graph has no constructor arguments: of cfg it reads only `retriever` (line 228)
GraphConfigs ==
    [variant : {"graph"}, max_search_steps : {GraphMaxSteps},
     use_self_evolution : {TRUE}, use_diffusion : {TRUE}, retriever : BOOLEAN]

IdleState == AgentState(<<>>, <<>>)

IdleGraph == GraphInput(<<>>)

Init ==
    /\ cfg \in DirectConfigs \cup GraphConfigs
    /\ \/ /\ cfg.variant = "direct"
          /\ pc = "start"
          /\ state = AgentState(Address, Brief)
          /\ gstate = IdleGraph
       \/ /\ cfg.variant = "graph"
          /\ pc = "parse_input"
          /\ state = IdleState
          /\ gstate \in {GraphInput(<<>>), GraphInput(<<Address>>)}
    /\ step = 0
    /\ question = <<>>
    /\ answer = <<>>
    /\ trace = <<>>
    /\ error = "none"
    /\ planCall = NoPlanCall
    /\ judge = Idle
    /\ evo = Idle
    /\ pair = Idle
    /\ win = Idle

Next == DirectNext \/ GraphNext

Spec == Init /\ [][Next]_vars

---------------------------------------------------------------------------
(* Calls of generate_plan on their own *)

NoRun == [variant |-> "none", max_search_steps |-> 0, use_self_evolution |-> FALSE,
          use_diffusion |-> FALSE, retriever |-> FALSE]

PlanInit ==
    /\ planCall \in [phase : {"call"}, query : Queries, brief : Briefs,
                     content : PlanTexts, result : {Returned(EmptyPlan)}]
    /\ cfg = NoRun
    /\ pc = "idle"
    /\ state = IdleState
    /\ gstate = IdleGraph
    /\ step = 0
    /\ question = <<>>
    /\ answer = <<>>
    /\ trace = <<>>
    /\ error = "none"
    /\ judge = Idle
    /\ evo = Idle
    /\ pair = Idle
    /\ win = Idle

\* planner.py lines 19-31
call_generate_plan ==
    /\ planCall.phase = "call"
    /\ planCall' = [planCall EXCEPT
                      !.phase = "returned",
                      !.result = generate_plan(planCall.query, planCall.brief, planCall.content)]
    /\ UNCHANGED <<runVars, judge, evo, pair, win>>

PlanNext == call_generate_plan

PlanSpec == PlanInit /\ [][PlanNext]_vars

---------------------------------------------------------------------------
(* Properties *)

\* search_history of whichever variant runs
History == IF Direct THEN state.search_history ELSE gstate.search_history

\* final_report of whichever variant runs
FinalReport == IF Direct THEN state.final_report ELSE gstate.final_report

Finished == pc \in {"done", "END"}

\* positions of the trace that hold the operation
At(name) == {i \in 1..Len(trace) : trace[i].op = name}

\* C1: in the direct variant, for every step budget N = max_search_steps >= 0
\* the loop starts at most N question generations and at most N web searches
\* and appends at most N results to search_history.
C1_StepBudget ==
    Direct =>
        /\ Count("question") <= cfg.max_search_steps
        /\ Count("web") <= cfg.max_search_steps
        /\ Count("append") <= cfg.max_search_steps
        /\ Len(state.search_history) <= cfg.max_search_steps

\* a run that used its whole budget of at least two steps
C1_Witness ==
    /\ Direct /\ pc = "done"
    /\ cfg.max_search_steps >= 2
    /\ Count("question") = cfg.max_search_steps
    /\ Count("web") = cfg.max_search_steps
    /\ Len(state.search_history) = cfg.max_search_steps

\* C2: provided every external call returns, a direct run ends with its final
\* report produced: it never ends on an exception that no external call raised.
C2_ReportProduced ==
    (Direct /\ pc = "aborted") => error = "CallError"

\* C3: in both variants, once question generation returns the sentinel DONE,
\* that step issues no web search, retrieval or synthesis, appends nothing and
\* denoises nothing: the one operation that can follow is the final report.
C3_SentinelStopsSearch ==
    \A i \in 1..Len(trace) :
        (trace[i].op = "question" /\ trace[i].ok /\ trace[i].text = DONE) =>
            /\ i = Len(trace) => pc \in {"final", "final_report"}
            /\ i < Len(trace) => (i + 1 = Len(trace) /\ trace[i + 1].op = "final")
            /\ Len(History) = Cardinality({k \in 1..(i - 1) : trace[k].op = "append"})

\* the sentinel came after a completed search step and the final report followed
C3_Witness ==
    /\ Finished
    /\ Count("append") >= 1
    /\ \E i \in At("question") : trace[i].text = DONE /\ trace[i + 1].op = "final"

\* C4: final_report is written once, after the search loop has ended: it is
\* empty until the run has finished, the final-report operation is started at
\* most once and nothing follows it, and when it is started the loop has ended
\* (budget used up, or the last question ended the search).
C4_FinalReportOnce ==
    /\ ~Finished => FinalReport = <<>>
    /\ Count("final") <= 1
    /\ \A i \in At("final") : i = Len(trace)
    /\ Finished => (Completed("final") = 1 /\ FinalReport \in Reports)
    /\ (Direct /\ Count("final") = 1) =>
          \/ step >= cfg.max_search_steps
          \/ (Len(trace) >= 2 /\ trace[Len(trace) - 1].op = "question"
              /\ LoopBreak(trace[Len(trace) - 1].text))
    /\ (Graph /\ Count("final") = 1) =>
          \/ gstate.step_count >= GraphMaxSteps
          \/ (Len(trace) >= 2 /\ trace[Len(trace) - 1].op = "question"
              /\ SearchStops(trace[Len(trace) - 1].text, gstate.step_count))
          \/ (Len(trace) >= 2 /\ trace[Len(trace) - 1].op = "append"
              /\ Contains(lower(Last(History)[1]), COMPLETE))

\* a finished run that searched and denoised before its report was written
C4_Witness ==
    /\ Finished
    /\ FinalReport # <<>>
    /\ Completed("denoise") >= 1
    /\ Len(History) >= 2

\* C5: in every state of a direct run revision_count is the number of denoise
\* operations completed so far (so it starts at 0, grows by one with each
\* update_draft and never goes down).
C5_RevisionCount ==
    Direct => state.revision_count = Completed("denoise")

\* two denoise operations have completed
C5_Witness ==
    Direct /\ state.revision_count >= 2 /\ Completed("denoise") >= 2

\* C6: in a direct run with use_diffusion the initial draft leaves
\* revision_count at 0 until the first search iteration has appended, and in
\* the finished run revision_count is the number of completed iterations,
\* which is len(search_history).
C6_RevisionsEqualIterations ==
    (Direct /\ cfg.use_diffusion) =>
        /\ Count("append") = 0 => state.revision_count = 0
        /\ pc \in {"loop", "final", "done"} =>
              (state.revision_count = step /\ step = Len(state.search_history))

\* a finished run with a non-empty initial draft, two completed iterations and
\* a terminating sentinel step
C6_Witness ==
    /\ Direct /\ cfg.use_diffusion /\ pc = "done"
    /\ state.revision_count = 2
    /\ Len(state.search_history) = 2
    /\ Count("question") = 3
    /\ Completed("draft") = 1

\* C7: search_history is append-only in both variants: every step leaves the
\* earlier history as a prefix of the later one, and it grows by exactly one
\* entry when a result is appended and not at all otherwise.
C7_AppendOnly ==
    [][ /\ IsPrefix(History, History')
        /\ Len(History') = Len(History) + (Count("append")' - Count("append"))
        /\ Count("append")' - Count("append") \in {0, 1} ]_vars

\* a history of two different entries
C7_Witness ==
    /\ Len(History) >= 2
    /\ History[1] # History[2]

\* the order of the stages, read off the operations performed so far
C8_Order ==
    /\ Count("plan") <= 1
    /\ trace # <<>> => trace[1].op = "plan"
    /\ Count("draft") <= 1
    /\ \A i \in At("draft") : i = 2
    /\ Direct => (Count("draft") = 1 => cfg.use_diffusion)
    /\ (Direct /\ cfg.use_diffusion) =>
          \A i \in At("question") : \E j \in At("draft") : j < i /\ trace[j].ok
    /\ Graph => \A i \in At("question") : \E j \in At("draft") : j < i /\ trace[j].ok
    /\ \A i \in At("final") : i = Len(trace)

\* the plan of whichever variant runs
Plan == IF Direct THEN state.plan ELSE gstate.plan

\* C8: stages run in the order plan, optional draft, search/denoise loop,
\* final report: planning is started once and first, the initial draft at most
\* once, right after planning, in the direct variant only when use_diffusion
\* is set, and before any question generation; the plan is not written again
\* after the planning stage.
C8_StageOrder ==
    /\ []C8_Order
    /\ [][trace # <<>> => Plan' = Plan]_vars

\* a finished run that drafted, searched and denoised, with a plan of sections
C8_Witness ==
    /\ Finished
    /\ Completed("draft") = 1
    /\ Completed("denoise") >= 1
    /\ Plan.sections # <<>>

\* the response is neither well-formed nor has a brace pair to extract: it
\* holds no "{", or no "}" after its first "{"
NoBracePair(content) ==
    \A i \in 1..Len(content) :
        (content[i] = "{" /\ \A k \in 1..(i - 1) : content[k] # "{") =>
            \A j \in (i + 1)..Len(content) : content[j] # "}"

\* the text between the first "{" and the last "}", both included
OutermostBraces(content) ==
    LET opens  == {i \in 1..Len(content) : content[i] = "{"}
        closes == {i \in 1..Len(content) : content[i] = "}"}
    IN  SubSeq(content, Min(opens), Max(closes))

\* C9: generate_plan never propagates a parse failure: for every response
\* text it returns a plan, the default single section when neither the whole
\* text nor its outermost-brace substring parses.
C9_NeverPropagates ==
    planCall.phase = "returned" =>
        /\ planCall.result.exc = "none"
        /\ (/\ ~json_loads(planCall.content).ok
            /\ (NoBracePair(planCall.content)
                \/ ~json_loads(OutermostBraces(planCall.content)).ok))
           => planCall.result.value = DefaultPlan(planCall.query)

\* C10: when the response is not well-formed and has no extractable brace
\* pair, generate_plan returns exactly one section whose questions are exactly
\* the input query, without the brief.
C10_FallbackPlan ==
    (/\ planCall.phase = "returned"
     /\ ~json_loads(planCall.content).ok
     /\ NoBracePair(planCall.content)) =>
        /\ planCall.result.exc = "none"
        /\ planCall.result.value.isdict
        /\ Len(planCall.result.value.sections) = 1
        /\ planCall.result.value.sections[1].questions = <<planCall.query>>

\* the fallback taken for a response whose only "}" comes before its "{", in a
\* call that was given a brief
C10_Witness ==
    /\ planCall.phase = "returned"
    /\ planCall.content = <<"x", "}", "{">>
    /\ planCall.brief # <<>>
    /\ planCall.result.value.sections[1].questions = <<planCall.query>>

\* in a direct run, the questions in `exits` end the search at once and
\* every other question is searched and, when no call raises, appended
DirectExitsExactlyOn(exits) ==
    Direct =>
        \A i \in At("question") :
            trace[i].ok =>
                IF trace[i].text \in exits
                  THEN /\ i = Len(trace) => pc = "final"
                       /\ i < Len(trace) => (i + 1 = Len(trace) /\ trace[i + 1].op = "final")
                  ELSE /\ i = Len(trace) => pc = "search_and_answer"
                       /\ i < Len(trace) => trace[i + 1].op = "web"
                       /\ LET later == {j \in (i + 1)..Len(trace) :
                                           trace[j].op \in {"question", "final"}}
                          IN  (error = "none" /\ later # {}) =>
                                  \E k \in (i + 1)..(Min(later) - 1) : trace[k].op = "append"

LastQuestion ==
    IF At("question") = {}
      THEN <<>>
      ELSE trace[CHOOSE i \in At("question") : \A j \in At("question") : j <= i].text

\* C14: in the graph variant the router goes from search to final_report only
\* if the step budget is exhausted or the question-generation response
\* contained DONE (in any case); after every other response it goes to denoise.
C14_FinalOnlyOnBudgetOrSentinel ==
    (Graph /\ pc = "final_report") =>
        \/ gstate.step_count >= GraphMaxSteps
        \/ Contains(upper(LastQuestion), DONE)

\* the 0-based index of the iteration that position k of a direct run's trace
\* belongs to: every earlier iteration appended once (line 101)
StepIndexAt(k) == Cardinality({j \in At("append") : j < k})

\* C15: in the direct variant with use_self_evolution the answer appended at
\* an iteration is the output of evolve_answer exactly when the iteration's
\* 0-based step index is a multiple of 3 and is the synthesized answer
\* otherwise; without use_self_evolution evolve_answer is never called.
C15_EvolveEveryThirdStep ==
    Direct =>
        /\ \A k \in At("append") :
             LET i == StepIndexAt(k)
             IN  /\ trace[k - 1].ok
                 /\ trace[k].text = trace[k - 1].text
                 /\ state.search_history[i + 1].answer = trace[k].text
                 /\ IF cfg.use_self_evolution /\ i % 3 = 0
                      THEN trace[k - 1].op = "evolve" /\ trace[k - 2].op = "synth"
                      ELSE trace[k - 1].op = "synth"
        /\ \A k \in At("evolve") :
             cfg.use_self_evolution /\ StepIndexAt(k) % 3 = 0
        /\ ~cfg.use_self_evolution => Count("evolve") = 0

\* four iterations with use_self_evolution: the first and the fourth
\* appended the evolved answer, the second and third the synthesized one
C15_Witness ==
    /\ Direct /\ cfg.use_self_evolution
    /\ Len(state.search_history) = 4
    /\ Count("evolve") = 2
    /\ state.search_history[1].answer = <<"a2">>
    /\ state.search_history[4].answer = <<"a2">>
    /\ \E k \in At("append") : StepIndexAt(k) = 2 /\ trace[k - 1].op = "synth"

\* C16: in the graph variant self-evolution is applied on every 2nd step after
\* the first: a run that no sentinel and no failing call cut short answers a
\* search step with an even step index greater than 0, and the answer stored
\* for that step is the output of evolve_answer.
C16_GraphEvolvesEvenSteps ==
    (/\ Graph /\ pc = "END"
     /\ \A i \in At("question") : ~Contains(upper(trace[i].text), DONE)
     /\ \A i \in At("question") : ~Contains(lower(trace[i].text), COMPLETE)) =>
        \E k \in At("append") :
            /\ StepIndexAt(k) % 2 = 0 /\ StepIndexAt(k) > 0
            /\ trace[k - 1].op = "evolve"
            /\ Last(gstate.search_history)[2] = trace[k - 1].text

\* C18: a retrieval failure never aborts a search step: when there is no
\* vector store or retrieve raises, the step still synthesizes an answer, with
\* "N/A" as its knowledge-base context as when retrieve finds nothing, appends
\* exactly one result and the loop goes on; only a step whose retrieve found
\* documents passes them on.
C18_RetrievalFailureSwallowed ==
    /\ \A i \in At("kb") :
         /\ cfg.retriever
         /\ trace[i - 1].op = "web"
         /\ i < Len(trace) /\ trace[i + 1].op = "synth"
    /\ \A k \in At("synth") :
         /\ trace[k - 1].op \in {"web", "kb"}
         /\ trace[k - 1].op = "web" => ~cfg.retriever
         /\ trace[k].ok =>
              trace[k].arg = IF trace[k - 1].op = "kb" /\ trace[k - 1].ok
                                  /\ trace[k - 1].text # <<>>
                               THEN trace[k - 1].text ELSE <<"N/A">>
    /\ pc = "aborted" => Last(trace).op # "kb"
    /\ Len(History) = Count("append")
    /\ Completed("synth") - Count("append") \in {0, 1}
    /\ Completed("synth") > Count("append") => pc \in {"evolve", "append", "aborted"}

\* a finished run in which retrieve raised at the first step, found
\* documents at the second and found nothing at the third: every step
\* appended its result
C18_Witness ==
    /\ Finished /\ cfg.retriever
    /\ Len(History) = 3
    /\ \E i \in At("kb") : trace[i].ok /\ trace[i].text = <<>> /\ StepIndexAt(i) = 2
                           /\ trace[i + 1].arg = <<"N/A">>
    /\ \E i \in At("kb") : ~trace[i].ok /\ trace[i + 1].arg = <<"N/A">> /\ trace[i + 1].ok
                           /\ StepIndexAt(i) = 0
    /\ \E i \in At("kb") : trace[i].ok /\ trace[i + 1].arg = KbDocs /\ StepIndexAt(i) = 1

\* draft_report of whichever variant runs
Draft == IF Direct THEN state.draft_report ELSE gstate.draft_report

\* the calls of a search iteration that nothing guards (lines 89-106)
IterationCalls == {"question", "web", "synth", "evolve", "denoise"}

\* the web-search or model call at position i of the trace raised
Raised_At(i) == ~trace[i].ok /\ trace[i].op # "kb"

\* a raising call is the last thing the run does: it is not issued again, no
\* later operation runs and final_report stays unset
AbortsRun(i) ==
    /\ i = Len(trace)
    /\ pc = "aborted"
    /\ FinalReport = <<>>

\* no result was appended since the iteration of position i asked its question
NoAppendInIteration(i) ==
    \A q \in At("question") :
        (q <= i /\ \A r \in At("question") : r <= q) =>
            \A j \in At("append") : j < q

\* the step that ends the run on a raising call leaves the draft, the
\* revision count and the history as they were
AbortKeepsState ==
    pc' = "aborted" =>
        /\ Draft' = Draft
        /\ state'.revision_count = state.revision_count
        /\ FinalReport' = FinalReport

\* C19 as stated: a web-search or model call that raises is not retried and
\* aborts the run; when it raises during search iteration k no result is
\* appended for iteration k, no later iteration runs, revision_count and the
\* draft keep their values and final_report is never set.
C19_FailureAbortsNoAppend ==
    /\ [](\A i \in 1..Len(trace) :
            Raised_At(i) =>
                /\ AbortsRun(i)
                /\ trace[i].op \in IterationCalls => NoAppendInIteration(i))
    /\ [][AbortKeepsState]_vars

\* C19 amended: as stated, except that a denoise call that raises does so
\* after iteration k's result was appended: that result stays in
\* search_history, and every other raising call of iteration k leaves no
\* result for iteration k.
C19_FailureAborts ==
    /\ [](\A i \in 1..Len(trace) :
            Raised_At(i) =>
                /\ AbortsRun(i)
                /\ trace[i].op \in IterationCalls \ {"denoise"} => NoAppendInIteration(i)
                /\ trace[i].op = "denoise" =>
                     /\ trace[i - 1].op = "append"
                     /\ Len(History) = Count("append")
                     /\ History # <<>>)
    /\ [][AbortKeepsState /\ (pc' = "aborted" => History' = History)]_vars

\* the synthesis call of the second iteration raised: the run ended with the
\* first iteration's result and revision only
C19_Witness ==
    /\ Direct /\ cfg.use_diffusion /\ pc = "aborted"
    /\ Raised_At(Len(trace)) /\ Last(trace).op = "synth"
    /\ Len(state.search_history) = 1
    /\ state.revision_count = 1
    /\ state.final_report = <<>>

\* C20: in the direct variant with use_diffusion every append is followed by
\* exactly one denoise before the next question generation or the final
\* report, and the findings given to that denoise are the last min(3, n)
\* entries, in order, of the n results held then, the one just appended
\* included.
C20_DenoiseAfterEachAppend ==
    (Direct /\ cfg.use_diffusion) =>
        /\ \A k \in At("append") :
             LET n == StepIndexAt(k) + 1
                 w == IF n < 3 THEN n ELSE 3
             IN  /\ k = Len(trace) => pc = "denoise_draft"
                 /\ k < Len(trace) =>
                      /\ trace[k + 1].op = "denoise"
                      /\ trace[k + 1].ok =>
                           /\ trace[k + 1].arg = SubSeq(state.search_history, n - w + 1, n)
                           /\ Last(trace[k + 1].arg).answer = trace[k].text
                 /\ k + 1 < Len(trace) => trace[k + 2].op \in {"question", "final"}
        /\ \A d \in At("denoise") : trace[d - 1].op = "append"
        /\ Completed("denoise") = state.revision_count

\* a finished run of four iterations: the fourth denoise was given the
\* second, third and fourth result and not the first
C20_Witness ==
    /\ Direct /\ cfg.use_diffusion /\ pc = "done"
    /\ Len(state.search_history) = 4
    /\ Completed("denoise") = 4
    /\ \E d \in At("denoise") :
         /\ StepIndexAt(d) = 4
         /\ trace[d].arg = SubSeq(state.search_history, 2, 4)

---------------------------------------------------------------------------
(* LLMEvaluator._extract_score and _extract_feedback (evaluator.py)        *)
(* A response of the judge is a sequence of tokens: a label is one token,  *)
(* every other token is one character (or a word that holds no label).     *)

\* 'Score: 7.5\nFeedback: looks good'
JudgeExample ==
    <<"Score:", " ", "7", ".", "5", "\n", "Feedback:", " ", "looks", " ", "good">>

JudgeTokens == {"Score:", "SCORE:", "Feedback:", " ", "7", ".", "x"}

\* response.content of the judge
JudgeTexts == SeqsUpTo(JudgeTokens, MaxTextLen) \cup {JudgeExample}

\* re.IGNORECASE: the label in any case
IsScoreLabel(c) == c \in {"Score:", "SCORE:", "score:"}

IsFeedbackLabel(c) == c \in {"Feedback:", "FEEDBACK:", "feedback:"}

\* \d
IsDigit(c) == c \in {"0", "1", "2", "3", "4", "5", "6", "7", "8", "9"}

DigitValue(c) == CHOOSE d \in 0..9 : ToString(d) = c

\* s[n:]
Drop(s, n) == SubSeq(s, n + 1, Len(s))

\* length of the longest prefix of s made of whitespace (\s*)
RECURSIVE SpaceRun(_)
SpaceRun(s) ==
    IF s # <<>> /\ Head(s) \in Whitespace THEN 1 + SpaceRun(Tail(s)) ELSE 0

\* length of the longest prefix of s made of digits (\d+)
RECURSIVE DigitRun(_)
DigitRun(s) ==
    IF s # <<>> /\ IsDigit(Head(s)) THEN 1 + DigitRun(Tail(s)) ELSE 0

\* the digits read as a decimal number
RECURSIVE DigitsValue(_)
DigitsValue(ds) ==
    IF ds = <<>> THEN 0
    ELSE 10 * DigitsValue(SubSeq(ds, 1, Len(ds) - 1)) + DigitValue(ds[Len(ds)])

RECURSIVE Pow10(_)
Pow10(n) == IF n = 0 THEN 1 ELSE 10 * Pow10(n - 1)

\* a float as the fraction num/den in lowest decimal terms
RECURSIVE Number(_, _)
Number(num, den) ==
    IF den > 1 /\ num % 10 = 0 THEN Number(num \div 10, den \div 10)
    ELSE [num |-> num, den |-> den]

\* float("<whole>.<frac>"), and float("<whole>") when frac is empty
float(whole, frac) == Number(DigitsValue(whole \o frac), Pow10(Len(frac)))

\* line 38: 5.0
DefaultScore == Number(5, 1)

\* what \s*(\d+(?:\.\d+)?) matches at the start of s: the digits of the
\* number before and after the point, `found` FALSE when it does not match
NumberAt(s) ==
    LET a     == Drop(s, SpaceRun(s))
        whole == Take(a, DigitRun(a))
        b     == Drop(a, DigitRun(a))
        frac  == IF b # <<>> /\ Head(b) = "." THEN Take(Tail(b), DigitRun(Tail(b))) ELSE <<>>
    IN  [found |-> whole # <<>>, whole |-> whole, frac |-> frac]

\* positions where the pattern of line 37 matches
ScoreMatches(content) ==
    {p \in 1..Len(content) : IsScoreLabel(content[p]) /\ NumberAt(Drop(content, p)).found}

\* lines 35-38 with the score brought into the scale 0-10
extract_score_clamped(content) ==
    IF ScoreMatches(content) = {} THEN DefaultScore
    ELSE LET m == NumberAt(Drop(content, Min(ScoreMatches(content))))
             f == float(m.whole, m.frac)
         IN  IF f.num > 10 * f.den THEN Number(10, 1) ELSE f

\* lines 35-38: re.search takes the leftmost match
extract_score(content) ==
    IF ScoreMatches(content) = {} THEN DefaultScore
    ELSE LET m == NumberAt(Drop(content, Min(ScoreMatches(content))))
         IN  float(m.whole, m.frac)

\* positions where the pattern of line 42 matches: (.+) needs a character
\* after the label
FeedbackMatches(content) ==
    {p \in 1..Len(content) : IsFeedbackLabel(content[p]) /\ p < Len(content)}

\* group 1 of Feedback:\s*(.+) at the start of s # <<>>: \s* takes the
\* leading whitespace and gives one character back when nothing follows it
FeedbackGroup(s) ==
    IF SpaceRun(s) < Len(s) THEN Drop(s, SpaceRun(s)) ELSE Drop(s, Len(s) - 1)

\* lines 40-43
extract_feedback(content) ==
    IF FeedbackMatches(content) = {} THEN content
    ELSE strip(FeedbackGroup(Drop(content, Min(FeedbackMatches(content)))))

JudgeInit ==
    /\ judge \in [phase : {"call"}, content : JudgeTexts,
                  score : {DefaultScore}, feedback : {<<>>}]
    /\ planCall = NoPlanCall
    /\ evo = Idle
    /\ pair = Idle
    /\ win = Idle
    /\ cfg = NoRun
    /\ pc = "idle"
    /\ state = IdleState
    /\ gstate = IdleGraph
    /\ step = 0
    /\ question = <<>>
    /\ answer = <<>>
    /\ trace = <<>>
    /\ error = "none"

\* evaluator.py line 23, on the response of line 22
evaluate_answer ==
    /\ judge.phase = "call"
    /\ judge' = [judge EXCEPT !.phase = "returned",
                              !.score = extract_score(judge.content),
                              !.feedback = extract_feedback(judge.content)]
    /\ UNCHANGED <<runVars, planCall, evo, pair, win>>

JudgeNext == evaluate_answer

JudgeSpec == JudgeInit /\ [][JudgeNext]_vars

\* C12: for every response text the score is the number that follows the
\* first Score: label that has one, and 5.0 when there is none; the feedback
\* is the stripped text after the first Feedback: label, and the entire
\* response when there is no such label; 'Score: 7.5\nFeedback: looks good'
\* yields (7.5, 'looks good').  Labels are read in any case.
C12_Extraction ==
    judge.phase = "returned" =>
        LET c  == judge.content
            sl == {p \in 1..Len(c) : IsScoreLabel(c[p]) /\ NumberAt(Drop(c, p)).found}
            fl == {p \in 1..Len(c) : IsFeedbackLabel(c[p])}
        IN  /\ sl = {} => judge.score = [num |-> 5, den |-> 1]
            /\ sl # {} =>
                 LET n == NumberAt(Drop(c, Min(sl)))
                 IN  judge.score.num * Pow10(Len(n.frac)) =
                         DigitsValue(n.whole \o n.frac) * judge.score.den
            /\ fl = {} => judge.feedback = c
            /\ fl # {} => judge.feedback = strip(Drop(c, Min(fl)))
            /\ c = JudgeExample =>
                 /\ judge.score = [num |-> 75, den |-> 10]
                 /\ judge.feedback = <<"looks", " ", "good">>

---------------------------------------------------------------------------
(* SelfEvolution.evolve_answer (self_evolution.py)                         *)
(* evo holds the arguments and locals of one call and, in `log`, the       *)
(* evaluate and revise calls made for each variant.                        *)

\* 'Score: 15': a score outside the scale the prompt asks for
ScoreOffScale == <<"Score:", " ", "1", "5">>

\* responses of the judge: a score of 8, a score below 8 with feedback, a
\* score above 8, a score above 10, and a response without a score
JudgeResponses ==
    { <<"Score:", " ", "8">>,
      ScoreOffScale,
      JudgeExample,
      <<"Score:", "9", ".", "5", "\n", "Feedback:", " ", "x">>,
      <<"x">> }

\* response.content of a variant-generation call (line 29), the i-th of a call
VariantText(i) == <<"v", ToString(i)>>

\* response.content of a revision call (line 47) on the answer
Revised(answer_text) == Append(answer_text, "+")

MergedAnswers == {<<"merged">>}

\* line 36: 8.0
ScoreThreshold == 8

\* line 36 with > for >=
GoodEnoughStrict(score) == score.num > ScoreThreshold * score.den

\* line 36: score >= 8.0
GoodEnough(score) == score.num >= ScoreThreshold * score.den

\* the arguments question and initial_answer of evolve_answer (line 16)
EvolveQuestion == <<"q">>

InitialAnswer == <<"a0">>

\* line 51 listing the candidates last to first
variants_text_reversed(variants) ==
    [i \in 1..Len(variants) |-> [n |-> i, variant |-> variants[Len(variants) + 1 - i]]]

\* line 51: f"Variant {i+1}:\n{v}" for i, v in enumerate(variants), joined
\* by the separator
variants_text(variants) ==
    [i \in 1..Len(variants) |-> [n |-> i, variant |-> variants[i]]]

\* a call of the model or of the judge made by evolve_answer: which variant
\* it is for (0 for the merge), what it was given and what it answered
EvolveCall(name, v, input, out) ==
    [op |-> name, v |-> v, score |-> DefaultScore, text |-> <<>>,
     input |-> input, out |-> out]

EvolveConfigs ==
    [pc : {"variants"}, num_variants : 0..MaxVariants, num_iterations : 0..MaxIterations,
     variants : {<<>>}, evolved : {<<>>}, v : {0}, it : {0}, current : {<<>>},
     feedback : {<<>>}, log : {<<>>}, result : {<<>>}]

EvolveInit ==
    /\ evo \in EvolveConfigs
    /\ planCall = NoPlanCall
    /\ judge = Idle
    /\ pair = Idle
    /\ win = Idle
    /\ cfg = NoRun
    /\ pc = "idle"
    /\ state = IdleState
    /\ gstate = IdleGraph
    /\ step = 0
    /\ question = <<>>
    /\ answer = <<>>
    /\ trace = <<>>
    /\ error = "none"

evoRest == <<runVars, planCall, judge, pair, win>>

\* a model call of evolve_answer raises: nothing catches it
EvolveAbort == evo' = [evo EXCEPT !.pc = "aborted"]

\* lines 18 and 22-29, then the first `current = variant` of line 33
generate_variants ==
    /\ evo.pc = "variants"
    /\ UNCHANGED evoRest
    /\ \/ evo.num_variants > 0 /\ EvolveAbort
       \/ LET vs  == [i \in 1..evo.num_variants |-> VariantText(i)]
              gen == [i \in 1..evo.num_variants |->
                         EvolveCall("generate", i, <<EvolveQuestion, InitialAnswer>>, vs[i])]
          IN  evo' = IF vs = <<>>
                       THEN [evo EXCEPT !.variants = vs, !.pc = "merge"]
                       ELSE [evo EXCEPT !.variants = vs, !.pc = "loop", !.v = 1,
                                        !.it = 0, !.current = vs[1], !.log = @ \o gen]

\* lines 34-37: one more round of the loop: evaluate, and leave on a score
\* of 8.0 or more
evaluate_variant ==
    /\ evo.pc = "loop"
    /\ InRange(evo.it, evo.num_iterations)
    /\ UNCHANGED evoRest
    /\ \/ EvolveAbort
       \/ \E content \in JudgeResponses :
            LET score == extract_score(content)
                entry == [EvolveCall("evaluate", evo.v, <<EvolveQuestion, evo.current>>, content)
                            EXCEPT !.score = score, !.text = evo.current]
            IN  evo' = [evo EXCEPT !.log = Append(@, entry),
                                   !.feedback = extract_feedback(content),
                                   !.pc = IF GoodEnough(score) THEN "return" ELSE "revise"]

\* lines 38 and 41-47
revise_with_feedback ==
    /\ evo.pc = "revise"
    /\ UNCHANGED evoRest
    /\ \/ EvolveAbort
       \/ LET entry == [EvolveCall("revise", evo.v,
                                    <<EvolveQuestion, evo.current, evo.feedback>>,
                                    Revised(evo.current))
                            EXCEPT !.text = evo.feedback]
          IN  evo' = [evo EXCEPT !.log = Append(@, entry),
                                 !.current = Revised(evo.current),
                                 !.it = @ + 1,
                                 !.pc = "loop"]

\* line 39, after the break or at the end of the range, and the next
\* variant of line 19
return_variant ==
    /\ \/ evo.pc = "return"
       \/ evo.pc = "loop" /\ ~InRange(evo.it, evo.num_iterations)
    /\ UNCHANGED evoRest
    /\ LET done == Append(evo.evolved, evo.current)
       IN  evo' = IF evo.v < Len(evo.variants)
                    THEN [evo EXCEPT !.evolved = done, !.v = @ + 1, !.it = 0,
                                     !.current = evo.variants[evo.v + 1],
                                     !.feedback = <<>>, !.pc = "loop"]
                    ELSE [evo EXCEPT !.evolved = done, !.pc = "merge"]

\* lines 20 and 49-56
merge_variants ==
    /\ evo.pc = "merge"
    /\ UNCHANGED evoRest
    /\ \/ EvolveAbort
       \/ \E r \in MergedAnswers :
            LET entry == EvolveCall("merge", 0, <<EvolveQuestion, variants_text(evo.evolved)>>, r)
            IN  evo' = [evo EXCEPT !.result = r, !.pc = "done", !.log = Append(@, entry)]

EvolveNext ==
    \/ generate_variants
    \/ evaluate_variant
    \/ revise_with_feedback
    \/ return_variant
    \/ merge_variants

EvolveSpec == EvolveInit /\ [][EvolveNext]_vars

\* positions of the log that hold the call `name` for variant v
CallsFor(name, v) ==
    {i \in 1..Len(evo.log) : evo.log[i].op = name /\ evo.log[i].v = v}

\* C11: in _evolve_variant, once an evaluation of a variant returns a score
\* of 8.0 or more, no further evaluate or revise call is made for that
\* variant and the variant as it stood at that evaluation is returned, even
\* when fewer than num_iterations rounds have run; a variant is evaluated at
\* most num_iterations times and revised at most num_iterations times.
C11_StopsAtGoodScore ==
    evo.pc # "variants" =>
        /\ \A v \in 1..Len(evo.variants) :
             /\ Cardinality(CallsFor("evaluate", v)) <= evo.num_iterations
             /\ Cardinality(CallsFor("revise", v)) <= evo.num_iterations
        /\ \A i \in 1..Len(evo.log) :
             (evo.log[i].op = "evaluate" /\ evo.log[i].score.num >= 8 * evo.log[i].score.den) =>
                 /\ \A j \in 1..Len(evo.log) : j > i => evo.log[j].v # evo.log[i].v
                 /\ IF evo.log[i].v <= Len(evo.evolved)
                      THEN evo.evolved[evo.log[i].v] = evo.log[i].text
                      ELSE /\ evo.pc \in {"return", "aborted"}
                           /\ evo.v = evo.log[i].v
                           /\ evo.current = evo.log[i].text

\* with two rounds allowed, the first variant was revised once and then
\* scored exactly 8, the second scored above 8 at its first evaluation:
\* each was returned as it stood then, neither used both revisions
C11_Witness ==
    /\ evo.pc = "done" /\ evo.num_iterations = 2
    /\ evo.evolved = <<Revised(VariantText(1)), VariantText(2)>>
    /\ Cardinality(CallsFor("evaluate", 1)) = 2
    /\ Cardinality(CallsFor("revise", 1)) = 1
    /\ Cardinality(CallsFor("evaluate", 2)) = 1
    /\ Cardinality(CallsFor("revise", 2)) = 0
    /\ \E i \in CallsFor("evaluate", 1) : evo.log[i].score = [num |-> 8, den |-> 1]

---------------------------------------------------------------------------
(* Both variants on one script of responses                                *)
(* A script fixes what every external call answers: the questions are its  *)
(* entries, every other call answers the same text in both variants, and   *)
(* no call raises.  Each variant is run to its end on the script and the   *)
(* stage operations it performed are recorded.                             *)

\* response.content of the question-generation calls, in order
Scripts == [1..GraphMaxSteps -> QuestionResponses]

ScriptAnswer == <<"a1">>

ScriptDraft == <<"d0">>

ScriptRefinement == <<"d1">>

\* the direct constructor arguments under which the variants are compared
ComparedConfigs ==
    [variant : {"direct"}, max_search_steps : {GraphMaxSteps},
     use_self_evolution : {FALSE}, use_diffusion : {TRUE}, retriever : BOOLEAN]

\* lines 86-106 from iteration i on, on the responses left in the script
RECURSIVE DirectLoop(_, _, _, _)
DirectLoop(s, i, script, ops) ==
    IF ~InRange(i, cfg.max_search_steps) \/ script = <<>>
      THEN [state |-> s, ops |-> ops]
    ELSE LET q == strip(Head(script))
         IN  IF LoopBreak(q)
               THEN [state |-> s, ops |-> ops \o <<"question">>]
               ELSE LET s1 == add_search_result(s, q, ScriptAnswer)
                        s2 == IF cfg.use_diffusion
                                THEN update_draft(s1, ScriptRefinement) ELSE s1
                    IN  DirectLoop(s2, i + 1, Tail(script),
                                   ops \o <<"question", "search">> \o
                                   (IF EvolveDue(i) THEN <<"evolve">> ELSE <<>>) \o
                                   <<"append">> \o
                                   (IF cfg.use_diffusion THEN <<"denoise">> ELSE <<>>))

\* lines 47-66
DirectRun(script) ==
    LET s0   == [AgentState(Address, Brief) EXCEPT !.plan = DefaultPlan(Address)]
        s1   == IF AfterPlan = "draft" THEN set_initial_draft(s0, ScriptDraft) ELSE s0
        loop == DirectLoop(s1, 0, script,
                           <<"plan">> \o (IF AfterPlan = "draft" THEN <<"draft">> ELSE <<>>))
    IN  [ops |-> loop.ops \o <<"final">>,
         history |-> [k \in 1..Len(loop.state.search_history) |->
                         <<loop.state.search_history[k].question,
                           loop.state.search_history[k].answer>>]]

\* search_node, its router, denoise_node and its router (lines 290-365,
\* 396-405, 431-432), from a state at the search node to the final report
RECURSIVE GraphLoop(_, _, _)
GraphLoop(g, script, ops) ==
    IF script = <<>> THEN [state |-> g, ops |-> ops]
    ELSE LET q     == strip(Head(script))
             i     == g.step_count
             g1    == IF SearchStops(q, i)
                        THEN [g EXCEPT !.messages = Append(@, ResearchComplete)]
                        ELSE SearchUpdate(g, q, ScriptAnswer,
                                          <<StepMessage(i, q)>> \o
                                          (IF GraphEvolveDue(i)
                                             THEN <<<<"Self-evolution">>>> ELSE <<>>))
             ops1  == ops \o <<"question">> \o
                      (IF SearchStops(q, i) THEN <<>>
                       ELSE <<"search">> \o
                            (IF GraphEvolveDue(i) THEN <<"evolve">> ELSE <<>>) \o
                            <<"append">>)
             g2    == IF g1.search_history = <<>>
                        THEN [g1 EXCEPT !.messages = Append(@, <<"No research">>)]
                        ELSE [g1 EXCEPT !.draft_report = ScriptRefinement,
                                        !.messages = Append(@, <<"Denoised">>)]
             ops2  == ops1 \o (IF g1.search_history = <<>> THEN <<>> ELSE <<"denoise">>)
         IN  IF should_continue_search(g1) = "final_report"
               THEN [state |-> g1, ops |-> ops1]
             ELSE IF after_denoise_routing(g2) = "final_report"
               THEN [state |-> g2, ops |-> ops2]
             ELSE GraphLoop(g2, Tail(script), ops2)

\* the graph of lines 412-436 from its entry point to END
GraphRun(script) ==
    LET g0   == [GraphInput(<<Address>>) EXCEPT
                   !.address = Address, !.plan = DefaultPlan(Address),
                   !.draft_report = ScriptDraft,
                   !.messages = @ \o <<<<"Starting">>, <<"Plan">>, <<"Initial draft">>>>]
        loop == GraphLoop(g0, script, <<"plan", "draft">>)
    IN  [ops |-> loop.ops \o <<"final">>, history |-> loop.state.search_history]

NotRun == [ops |-> <<>>, history |-> <<>>]

PairInit ==
    /\ pair \in [phase : {"script"}, questions : Scripts,
                 directRan : {FALSE}, graphRan : {FALSE},
                 direct : {NotRun}, graph : {NotRun}]
    /\ cfg \in ComparedConfigs
    /\ planCall = NoPlanCall
    /\ judge = Idle
    /\ evo = Idle
    /\ win = Idle
    /\ pc = "idle"
    /\ state = IdleState
    /\ gstate = IdleGraph
    /\ step = 0
    /\ question = <<>>
    /\ answer = <<>>
    /\ trace = <<>>
    /\ error = "none"

\* TTDDRAgent.run on the script
run_direct ==
    /\ ~pair.directRan
    /\ pair' = [pair EXCEPT !.directRan = TRUE, !.direct = DirectRun(pair.questions)]
    /\ UNCHANGED <<runVars, planCall, judge, evo, win>>

\* the compiled graph on the script
run_graph ==
    /\ ~pair.graphRan
    /\ pair' = [pair EXCEPT !.graphRan = TRUE, !.graph = GraphRun(pair.questions)]
    /\ UNCHANGED <<runVars, planCall, judge, evo, win>>

PairNext == run_direct \/ run_graph

PairSpec == PairInit /\ [][PairNext]_vars

\* C17: for a step budget of 2, use_diffusion on and self-evolution not
\* triggering, the graph variant and the direct variant, given the same
\* responses, perform the same sequence of stage operations and end with
\* the same search_history.
C17_SameStages ==
    (pair.phase = "script" /\ pair.directRan /\ pair.graphRan) =>
        /\ pair.direct.ops = pair.graph.ops
        /\ pair.direct.history = pair.graph.history

---------------------------------------------------------------------------
(* Properties of the graph's draft, the question window, the merge and    *)
(* the score                                                              *)

\* C21: in the graph variant every result the search node appended has been
\* merged into the draft by a denoise-node execution of its own before the
\* final report is generated: at final_report_node the draft has been
\* denoised once per appended result.
C21_GraphDenoisesEveryResult ==
    (Graph /\ pc \in {"final_report", "END"}) =>
        /\ Completed("denoise") = Len(gstate.search_history)
        /\ \A k \in At("append") : k < Len(trace) /\ trace[k + 1].op = "denoise"

---------------------------------------------------------------------------
(* The prior-question list of question generation (lines 117 and 301)     *)

\* line 117: state.search_history[-5:]
QuestionWindow == 5

\* line 301: state["search_history"][-3:]
GraphQuestionWindow == 3

\* the text given when there is no prior question
NoPrevious == <<"None">>

\* the numbered lines listing the newest question first
NumberedNewestFirst(qs) ==
    [i \in 1..Len(qs) |-> [n |-> i, question |-> qs[Len(qs) + 1 - i]]]

\* the lines f"{i+1}. {question}" for i, question in enumerate(qs)
Numbered(qs) == [i \in 1..Len(qs) |-> [n |-> i, question |-> qs[i]]]

\* line 117: the `previous` input of the direct question prompt
previous(search_history) ==
    LET latest == LastN(search_history, QuestionWindow)
        lines  == Numbered([k \in 1..Len(latest) |-> latest[k].question])
    IN  IF lines = <<>> THEN NoPrevious ELSE lines

\* line 301: the `history` input of the graph question prompt
history_text(search_history) ==
    IF search_history = <<>> THEN NoPrevious
    ELSE LET latest == LastN(search_history, GraphQuestionWindow)
         IN  Numbered([k \in 1..Len(latest) |-> latest[k][1]])

WindowQuestions == {<<"q">>, <<"r">>}

WindowInit ==
    /\ win \in [phase : {"history"}, questions : SeqsUpTo(WindowQuestions, MaxHistory),
                direct : {<<>>}, graph : {<<>>}]
    /\ planCall = NoPlanCall
    /\ judge = Idle
    /\ evo = Idle
    /\ pair = Idle
    /\ cfg = NoRun
    /\ pc = "idle"
    /\ state = IdleState
    /\ gstate = IdleGraph
    /\ step = 0
    /\ question = <<>>
    /\ answer = <<>>
    /\ trace = <<>>
    /\ error = "none"

\* lines 117 and 301 on a history holding the questions, in the order they
\* were appended
build_previous ==
    /\ win.phase = "history"
    /\ win' = [win EXCEPT
                 !.phase = "listed",
                 !.direct = previous([k \in 1..Len(win.questions) |->
                                         SearchResult(win.questions[k], ScriptAnswer)]),
                 !.graph = history_text([k \in 1..Len(win.questions) |->
                                            <<win.questions[k], ScriptAnswer>>])]
    /\ UNCHANGED <<runVars, planCall, judge, evo, pair>>

WindowNext == build_previous

WindowSpec == WindowInit /\ [][WindowNext]_vars

\* the list holds the last min(n, Len) questions, numbered from 1
HoldsLastQuestions(list, n) ==
    LET len == Len(win.questions)
        w   == IF len < n THEN len ELSE n
    IN  /\ Len(list) = w
        /\ \A i \in 1..w : list[i].n = i
        /\ {list[i].question : i \in 1..w} = {win.questions[k] : k \in (len - w + 1)..len}

\* C22 as stated: the prior-question list holds the last N questions of
\* search_history (N = 5 direct, 3 graph, fewer when the history is shorter)
\* listed most recent first: item 1 is the question appended last.
C22_WindowNewestFirst ==
    (win.phase = "listed" /\ win.questions # <<>>) =>
        LET len == Len(win.questions)
        IN  /\ HoldsLastQuestions(win.direct, 5)
            /\ HoldsLastQuestions(win.graph, 3)
            /\ \A i \in 1..Len(win.direct) : win.direct[i].question = win.questions[len + 1 - i]
            /\ \A i \in 1..Len(win.graph) : win.graph[i].question = win.questions[len + 1 - i]

\* C22 amended: the prior-question list holds the last N questions of
\* search_history (N = 5 direct, 3 graph, fewer when the history is shorter)
\* listed in the order they were appended: item 1 is the oldest question of
\* the window and the last item is the question appended last; with no
\* prior question the text is "None".
C22_WindowOldestFirst ==
    win.phase = "listed" =>
        LET len == Len(win.questions)
        IN  IF len = 0
              THEN win.direct = <<"None">> /\ win.graph = <<"None">>
              ELSE /\ HoldsLastQuestions(win.direct, 5)
                   /\ HoldsLastQuestions(win.graph, 3)
                   /\ \A i \in 1..Len(win.direct) :
                        win.direct[i].question = win.questions[len - Len(win.direct) + i]
                   /\ \A i \in 1..Len(win.graph) :
                        win.graph[i].question = win.questions[len - Len(win.graph) + i]

\* six questions: the direct list holds the second to the sixth and the
\* graph list the fourth to the sixth, each ending with the newest
C22_Witness ==
    /\ win.phase = "listed"
    /\ win.questions = <<<<"q">>, <<"q">>, <<"q">>, <<"r">>, <<"q">>, <<"r">>>>
    /\ Len(win.direct) = 5 /\ Len(win.graph) = 3
    /\ win.direct[1].question = <<"q">> /\ win.direct[5].question = <<"r">>
    /\ win.graph[1].question = <<"r">> /\ win.graph[2].question = <<"q">>

\* positions of the evolve log that hold a call answering with a text of
\* variant v: its generation and its revisions
TextsOf(v) ==
    {i \in 1..Len(evo.log) : evo.log[i].v = v /\ evo.log[i].op \in {"generate", "revise"}}

\* C23: evolve_answer generates exactly num_variants candidates, each from
\* the same question and initial answer; every evaluation and revision of a
\* variant is given that variant's own latest text and no other candidate's;
\* exactly one merge call is issued, after every variant has finished
\* evolving, and it receives all num_variants evolved variants in generation
\* order.
C23_VariantsThenOneMerge ==
    evo.pc # "variants" =>
        LET log == evo.log
            gen == {i \in 1..Len(log) : log[i].op = "generate"}
            mrg == {i \in 1..Len(log) : log[i].op = "merge"}
        IN  /\ evo.pc # "aborted" => Cardinality(gen) = evo.num_variants
            /\ \A i \in gen :
                 /\ log[i].v = i
                 /\ log[i].input = <<<<"q">>, <<"a0">>>>
            /\ \A i \in 1..Len(log) :
                 log[i].op \in {"evaluate", "revise"} =>
                     /\ {j \in TextsOf(log[i].v) : j < i} # {}
                     /\ log[i].input[2] = log[Max({j \in TextsOf(log[i].v) : j < i})].out
            /\ Cardinality(mrg) = IF evo.pc = "done" THEN 1 ELSE 0
            /\ \A m \in mrg :
                 /\ m = Len(log)
                 /\ Len(log[m].input[2]) = evo.num_variants
                 /\ \A v \in 1..evo.num_variants :
                      /\ log[m].input[2][v].n = v
                      /\ log[m].input[2][v].variant = log[Max(TextsOf(v))].out
                      /\ \A i \in 1..Len(log) : log[i].v = v => i < m

\* two variants: the first was revised once, the second not at all, and the
\* one merge call received the revised first and the unrevised second
C23_Witness ==
    /\ evo.pc = "done" /\ evo.num_variants = 2
    /\ Cardinality(CallsFor("generate", 1)) = 1
    /\ Cardinality(CallsFor("generate", 2)) = 1
    /\ Cardinality(CallsFor("revise", 1)) = 1
    /\ evo.log[Len(evo.log)].op = "merge"
    /\ evo.log[Len(evo.log)].input[2] =
           <<[n |-> 1, variant |-> Revised(VariantText(1))],
             [n |-> 2, variant |-> VariantText(2)]>>

C25_GraphBoundedAndCompletes ==
    Graph =>
        /\ gstate.step_count = Len(gstate.search_history)
        /\ gstate.step_count <= 2
        /\ Count("append") <= 2
        /\ Count("denoise") <= 1
        /\ pc = "END" => Completed("final") = 1
        /\ pc \notin {"END", "aborted"} => ENABLED GraphNext
        /\ pc = "aborted" => error = "CallError"

\* C26: in a direct run with use_diffusion disabled draft_report stays empty
\* and revision_count stays 0, no initial-draft call and no denoise call is
\* made, the final-report call is given an empty draft, and search_history
\* holds one result per completed iteration.
C26_NoDiffusionNoDraft ==
    (Direct /\ ~cfg.use_diffusion) =>
        /\ state.draft_report = <<>>
        /\ state.revision_count = 0
        /\ Count("draft") = 0
        /\ Count("denoise") = 0
        /\ \A k \in At("final") : trace[k].arg = <<>>
        /\ Len(state.search_history) = Completed("append")
        /\ Len(state.search_history) = step

C26_Witness ==
    /\ Direct /\ ~cfg.use_diffusion /\ pc = "done"
    /\ Len(state.search_history) = 2
    /\ Completed("final") = 1

====
